---------------------------- MODULE Spec2Model ----------------------------
(***************************************************************************)
(* Model of the token contract of src/token.cpp: the ledger (stat,         *)
(* accounts), the lock/unlock operations, the staking engine (stakestats,  *)
(* stakinglog, unstakinglog) with its deferred release, and the config     *)
(* table.  Every ACTION of the contract is one action of the model; an     *)
(* eosio_assert that fails aborts the whole call and leaves every table as *)
(* it was.  An asset is modelled by its symbol code and its int64 amount;  *)
(* the precision of a symbol is not modelled.  The clock counts seconds.   *)
(***************************************************************************)
EXTENDS Integers, Sequences, FiniteSets, TLC

VARIABLES configtable, stat, accounts, stakestats, stakinglog, unstakinglog,
          deferred, now, last

tables == <<configtable, stat, accounts, stakestats, stakinglog, unstakinglog, deferred>>
vars == <<configtable, stat, accounts, stakestats, stakinglog, unstakinglog, deferred, now, last>>

(***************************************************************************)
(* Bounds of the model.                                                    *)
(***************************************************************************)
MaxAmount == 2
MaxTime == 1

Self == "token"
Users == {"alice", "bob"}
Names == Users \cup {"ghost"}
Callers == Users \cup {Self}
Symbols == {"A", "B"}
Quantities == 0 .. MaxAmount
SignedQuantities == (-1) .. MaxAmount
Amounts == (-1) .. MaxAmount
StatusValues == {0, 1}
Garbage == {0, 1}

is_account(n) == n \in Users \cup {Self}

\* Mutant: every caller carries every authority.
has_auth_of_anyone(caller, n) == TRUE

has_auth(caller, n) == caller = n

(***************************************************************************)
(* Strings of decimal digits: the values of the config table.              *)
(***************************************************************************)
RECURSIVE to_string(_)
to_string(n) == IF n < 10 THEN <<n>> ELSE Append(to_string(n \div 10), n % 10)

RECURSIVE stoul(_)
stoul(s) == IF Len(s) = 0 THEN 0
            ELSE 10 * stoul(SubSeq(s, 1, Len(s) - 1)) + s[Len(s)]

CONFIG_INIT == "init"
CONFIG_STAKE_STATUS == "sstatus"
CONFIG_ISSUE_STATUS == "istatus"
CONFIG_TRANSFER_STATUS == "tstatus"
CONFIG_UNSTAKE_TIME == "unstaketime"

(***************************************************************************)
(* The database a call works on, and the outcome of a call.                *)
(***************************************************************************)
DB == [configtable |-> configtable, stat |-> stat, accounts |-> accounts,
       stakestats |-> stakestats, stakinglog |-> stakinglog,
       unstakinglog |-> unstakinglog, deferred |-> deferred]

Abort(db, msg) == [ok |-> FALSE, err |-> msg, db |-> db]
Done(db) == [ok |-> TRUE, err |-> "", db |-> db]

Emplace(table, key, row) == [k \in DOMAIN table \cup {key} |->
                                IF k = key THEN row ELSE table[k]]
Erase(table, key) == [k \in DOMAIN table \ {key} |-> table[k]]

(***************************************************************************)
(* Config helpers.                                                         *)
(***************************************************************************)
\* Mutant: an entry that is present enables, whatever its value.
assert_status_any_value(db, key) == key \in DOMAIN db.configtable

assert_status(db, key) ==
    /\ key \in DOMAIN db.configtable
    /\ stoul(db.configtable[key]) > 0

get_unstake_time(db) == stoul(db.configtable[CONFIG_UNSTAKE_TIME])

set_config(db, caller, key, value) ==
    IF ~has_auth(caller, Self) THEN Abort(db, "missing authority")
    ELSE Done([db EXCEPT !.configtable = Emplace(@, key, value)])

\* Mutant: init does not look at the init entry.
init_again(db, caller) ==
    IF ~has_auth(caller, Self) THEN Abort(db, "missing authority")
    ELSE LET d1 == set_config(db, caller, CONFIG_STAKE_STATUS, <<1>>).db
             d2 == set_config(d1, caller, CONFIG_ISSUE_STATUS, <<1>>).db
             d3 == set_config(d2, caller, CONFIG_TRANSFER_STATUS, <<1>>).db
             d4 == set_config(d3, caller, CONFIG_UNSTAKE_TIME, <<8, 6, 4, 0, 0>>).db
         IN  set_config(d4, caller, CONFIG_INIT, <<1>>)

init(db, caller) ==
    IF ~has_auth(caller, Self) THEN Abort(db, "missing authority")
    ELSE IF ~(CONFIG_INIT \notin DOMAIN db.configtable \/ db.configtable[CONFIG_INIT] = <<0>>)
    THEN Abort(db, "not allow init.")
    ELSE LET d1 == set_config(db, caller, CONFIG_STAKE_STATUS, <<1>>).db
             d2 == set_config(d1, caller, CONFIG_ISSUE_STATUS, <<1>>).db
             d3 == set_config(d2, caller, CONFIG_TRANSFER_STATUS, <<1>>).db
             d4 == set_config(d3, caller, CONFIG_UNSTAKE_TIME, <<8, 6, 4, 0, 0>>).db
         IN  set_config(d4, caller, CONFIG_INIT, <<1>>)

(***************************************************************************)
(* Token region: create, issue, transfer and the balance helpers.          *)
(***************************************************************************)
\* Mutant: the staked part is not taken off.
available_ignores_stake(row) == row.balance - row.lock_balance

available(row) == row.balance - row.lock_balance - row.stake_balance

\* Mutant: the debit is checked but not made.
sub_balance_keeps_balance(db, owner, sym, q) ==
    IF <<owner, sym>> \notin DOMAIN db.accounts THEN Abort(db, "no balance object found")
    ELSE IF ~(available(db.accounts[<<owner, sym>>]) >= q) THEN Abort(db, "overdrawn balance")
    ELSE Done(db)

sub_balance(db, owner, sym, q) ==
    IF <<owner, sym>> \notin DOMAIN db.accounts THEN Abort(db, "no balance object found")
    ELSE IF ~(available(db.accounts[<<owner, sym>>]) >= q) THEN Abort(db, "overdrawn balance")
    ELSE Done([db EXCEPT !.accounts[<<owner, sym>>].balance = @ - q])

\* Mutant: a credit to an existing row replaces its balance.
add_balance_replaces(db, owner, sym, q) ==
    [db EXCEPT !.accounts = Emplace(@, <<owner, sym>>,
                   [balance |-> q, lock_balance |-> 0, stake_balance |-> 0])]

add_balance(db, owner, sym, q) ==
    IF <<owner, sym>> \notin DOMAIN db.accounts
    THEN [db EXCEPT !.accounts = Emplace(@, <<owner, sym>>,
                        [balance |-> q, lock_balance |-> 0, stake_balance |-> 0])]
    ELSE [db EXCEPT !.accounts[<<owner, sym>>].balance = @ + q]

create(db, caller, issuer, sym, max) ==
    IF ~has_auth(caller, Self) THEN Abort(db, "missing authority")
    ELSE IF ~(max > 0) THEN Abort(db, "max-supply must be positive")
    ELSE IF sym \in DOMAIN db.stat THEN Abort(db, "token with symbol already exists")
    ELSE Done([db EXCEPT !.stat = Emplace(@, sym,
                   [supply |-> 0, max_supply |-> max, issuer |-> issuer])])

transfer(db, caller, from, to, sym, q) ==
    IF ~assert_status(db, CONFIG_TRANSFER_STATUS)
    THEN Abort(db, "current status do not allow doing this action.")
    ELSE IF ~(from # to) THEN Abort(db, "cannot transfer to self")
    ELSE IF ~has_auth(caller, from) THEN Abort(db, "has no permission")
    ELSE IF ~is_account(to) THEN Abort(db, "to account does not exist")
    ELSE IF sym \notin DOMAIN db.stat THEN Abort(db, "unable to find key")
    ELSE IF ~(q > 0) THEN Abort(db, "must transfer positive quantity")
    ELSE LET r == sub_balance(db, from, sym, q)
         IN  IF ~r.ok THEN Abort(db, r.err)
             ELSE Done(add_balance(r.db, to, sym, q))

\* Mutant: the cap is compared with the quantity alone.
issue_fits_ignores_supply(st, q) == q <= st.max_supply

issue_fits(st, q) == q <= st.max_supply - st.supply

\* Mutant: the supply and the credit of the issuer stay when the inline
\* transfer fails.
issue_keeps_credit(db, caller, to, sym, q) ==
    IF ~assert_status(db, CONFIG_ISSUE_STATUS)
    THEN Abort(db, "current status do not allow doing this action.")
    ELSE IF sym \notin DOMAIN db.stat
    THEN Abort(db, "token with symbol does not exist, create token before issue")
    ELSE LET st == db.stat[sym]
         IN  IF ~has_auth(caller, st.issuer) THEN Abort(db, "missing authority")
             ELSE IF ~(q > 0) THEN Abort(db, "must issue positive quantity")
             ELSE IF ~issue_fits(st, q) THEN Abort(db, "quantity exceeds available supply")
             ELSE LET d1 == [db EXCEPT !.stat[sym].supply = @ + q]
                      d2 == add_balance(d1, st.issuer, sym, q)
                  IN  IF to # st.issuer
                      THEN LET r == transfer(d2, st.issuer, st.issuer, to, sym, q)
                           IN  IF ~r.ok THEN Abort(d2, r.err) ELSE r
                      ELSE Done(d2)

issue(db, caller, to, sym, q) ==
    IF ~assert_status(db, CONFIG_ISSUE_STATUS)
    THEN Abort(db, "current status do not allow doing this action.")
    ELSE IF sym \notin DOMAIN db.stat
    THEN Abort(db, "token with symbol does not exist, create token before issue")
    ELSE LET st == db.stat[sym]
         IN  IF ~has_auth(caller, st.issuer) THEN Abort(db, "missing authority")
             ELSE IF ~(q > 0) THEN Abort(db, "must issue positive quantity")
             ELSE IF ~issue_fits(st, q) THEN Abort(db, "quantity exceeds available supply")
             ELSE LET d1 == [db EXCEPT !.stat[sym].supply = @ + q]
                      d2 == add_balance(d1, st.issuer, sym, q)
                  IN  IF to # st.issuer
                      THEN LET r == transfer(d2, st.issuer, st.issuer, to, sym, q)
                           IN  IF ~r.ok THEN Abort(db, r.err) ELSE r
                      ELSE Done(d2)

(***************************************************************************)
(* Lock region.                                                            *)
(***************************************************************************)
lock(db, caller, account, sym, q) ==
    IF ~has_auth(caller, Self) THEN Abort(db, "missing authority")
    ELSE IF <<account, sym>> \notin DOMAIN db.accounts THEN Abort(db, "no balance object found")
    ELSE IF ~(available(db.accounts[<<account, sym>>]) >= q) THEN Abort(db, "overdrawn balance")
    ELSE Done([db EXCEPT !.accounts[<<account, sym>>].lock_balance = @ + q])

\* Mutant: unlock does not compare the quantity with what is locked.
unlock_unchecked(db, caller, account, sym, q) ==
    IF ~has_auth(caller, Self) THEN Abort(db, "missing authority")
    ELSE IF <<account, sym>> \notin DOMAIN db.accounts THEN Abort(db, "no balance object found")
    ELSE Done([db EXCEPT !.accounts[<<account, sym>>].lock_balance = @ - q])

unlock(db, caller, account, sym, q) ==
    IF ~has_auth(caller, Self) THEN Abort(db, "missing authority")
    ELSE IF <<account, sym>> \notin DOMAIN db.accounts THEN Abort(db, "no balance object found")
    ELSE IF ~(db.accounts[<<account, sym>>].lock_balance >= q) THEN Abort(db, "overdrawn balance")
    ELSE Done([db EXCEPT !.accounts[<<account, sym>>].lock_balance = @ - q])

(***************************************************************************)
(* Stake region.  The deferred transactions of the contract are a set of   *)
(* records; sender_id is the key the host keeps them under, delay_sec the  *)
(* delay the contract asked for and due the time the host runs it from.    *)
(***************************************************************************)
stakinglog_add(db, from, sym, q) ==
    IF <<sym, from>> \notin DOMAIN db.stakinglog
    THEN [db EXCEPT !.stakinglog = Emplace(@, <<sym, from>>, q)]
    ELSE [db EXCEPT !.stakinglog[<<sym, from>>] = @ + q]

\* Mutant: the aggregate is overwritten instead of increased.
stakestats_add_overwrites(db, sym, q) ==
    IF sym \notin DOMAIN db.stakestats
    THEN [db EXCEPT !.stakestats = Emplace(@, sym, [staking |-> q, unstaking |-> 0])]
    ELSE [db EXCEPT !.stakestats[sym].staking = q]

stakestats_add(db, sym, q) ==
    IF sym \notin DOMAIN db.stakestats
    THEN [db EXCEPT !.stakestats = Emplace(@, sym, [staking |-> q, unstaking |-> 0])]
    ELSE [db EXCEPT !.stakestats[sym].staking = @ + q]

stake(db, caller, from, sym, q) ==
    IF ~has_auth(caller, from) THEN Abort(db, "missing authority")
    ELSE IF ~assert_status(db, CONFIG_STAKE_STATUS)
    THEN Abort(db, "current status do not allow doing this action.")
    ELSE IF ~(q > 0) THEN Abort(db, "Quantity must be positive")
    ELSE IF <<from, sym>> \notin DOMAIN db.accounts THEN Abort(db, "no balance object found")
    ELSE IF ~(available(db.accounts[<<from, sym>>]) >= q) THEN Abort(db, "overdrawn balance")
    ELSE LET d1 == stakinglog_add(db, from, sym, q)
             d2 == stakestats_add(d1, sym, q)
         IN  Done([d2 EXCEPT !.accounts[<<from, sym>>].stake_balance = @ + q])

\* Mutant: a row that reaches zero is kept.
stakinglog_sub_keeps_row(db, from, sym, q) ==
    [db EXCEPT !.stakinglog[<<sym, from>>] = @ - q]

stakinglog_sub(db, from, sym, q) ==
    IF q = db.stakinglog[<<sym, from>>]
    THEN [db EXCEPT !.stakinglog = Erase(@, <<sym, from>>)]
    ELSE [db EXCEPT !.stakinglog[<<sym, from>>] = @ - q]

\* Mutant: the immediate branch leaves the staked part of the account row.
unstake_instance_keeps_staked(db, from, sym, q) ==
    IF sym \notin DOMAIN db.stakestats THEN Abort(db, "cannot pass end iterator to modify")
    ELSE IF <<from, sym>> \notin DOMAIN db.accounts THEN Abort(db, "no balance object found")
    ELSE Done([db EXCEPT !.stakestats[sym].staking = @ - q])

unstake_instance(db, from, sym, q) ==
    IF sym \notin DOMAIN db.stakestats THEN Abort(db, "cannot pass end iterator to modify")
    ELSE IF <<from, sym>> \notin DOMAIN db.accounts THEN Abort(db, "no balance object found")
    ELSE Done([db EXCEPT !.stakestats[sym].staking = @ - q,
                         !.accounts[<<from, sym>>].stake_balance = @ - q])

\* Mutant: a second request replaces the pending amount.
unstakinglog_add_replaces(db, time, from, sym, q) ==
    [db EXCEPT !.unstakinglog = Emplace(@, <<sym, from>>,
                   [amount |-> q, request_time |-> time])]

\* Mutant: a merged request keeps the time of the first request.
unstakinglog_add_keeps_time(db, time, from, sym, q) ==
    IF <<sym, from>> \notin DOMAIN db.unstakinglog
    THEN [db EXCEPT !.unstakinglog = Emplace(@, <<sym, from>>,
                        [amount |-> q, request_time |-> time])]
    ELSE [db EXCEPT !.unstakinglog[<<sym, from>>].amount = @ + q]

unstakinglog_add(db, time, from, sym, q) ==
    IF <<sym, from>> \notin DOMAIN db.unstakinglog
    THEN [db EXCEPT !.unstakinglog = Emplace(@, <<sym, from>>,
                        [amount |-> q, request_time |-> time])]
    ELSE [db EXCEPT !.unstakinglog[<<sym, from>>] =
                        [amount |-> @.amount + q, request_time |-> time]]

cancel_deferred(trxs, sender_id) == {d \in trxs : d.sender_id # sender_id}

send_deferred(trxs, sender_id, trx) ==
    {d \in trxs : d.sender_id # sender_id} \cup {trx}

\* Mutant: the deferred branch gives the stake back at once, as the immediate
\* branch does.
unstake_deferred_frees(db, time, from, sym, q) ==
    LET d1 == unstakinglog_add(db, time, from, sym, q)
    IN  IF sym \notin DOMAIN d1.stakestats THEN Abort(db, "cannot pass end iterator to modify")
        ELSE IF CONFIG_UNSTAKE_TIME \notin DOMAIN d1.configtable
        THEN Abort(db, "unstake time not set.")
        ELSE LET d2 == [d1 EXCEPT !.stakestats[sym].unstaking = @ + q,
                                  !.stakestats[sym].staking = @ - q,
                                  !.accounts[<<from, sym>>].stake_balance = @ - q]
                 out == [sender_id |-> from, from |-> from, sym |-> sym,
                         delay_sec |-> get_unstake_time(d2),
                         due |-> time + get_unstake_time(d2)]
             IN  Done([d2 EXCEPT !.deferred =
                          send_deferred(cancel_deferred(@, from), from, out)])

unstake_deferred(db, time, from, sym, q) ==
    LET d1 == unstakinglog_add(db, time, from, sym, q)
    IN  IF sym \notin DOMAIN d1.stakestats THEN Abort(db, "cannot pass end iterator to modify")
        ELSE IF CONFIG_UNSTAKE_TIME \notin DOMAIN d1.configtable
        THEN Abort(db, "unstake time not set.")
        ELSE LET d2 == [d1 EXCEPT !.stakestats[sym].unstaking = @ + q,
                                  !.stakestats[sym].staking = @ - q]
                 out == [sender_id |-> from, from |-> from, sym |-> sym,
                         delay_sec |-> get_unstake_time(d2),
                         due |-> time + get_unstake_time(d2)]
             IN  Done([d2 EXCEPT !.deferred =
                          send_deferred(cancel_deferred(@, from), from, out)])

unstake(db, time, caller, from, sym, q, isinstance) ==
    IF ~(has_auth(caller, from) \/ has_auth(caller, Self)) THEN Abort(db, "has no permission")
    ELSE IF ~assert_status(db, CONFIG_STAKE_STATUS)
    THEN Abort(db, "current status do not allow doing this action.")
    ELSE IF ~(q > 0) THEN Abort(db, "Quantity must be positive")
    ELSE IF <<sym, from>> \notin DOMAIN db.stakinglog THEN Abort(db, "user has not stake yets. ")
    ELSE IF ~(db.stakinglog[<<sym, from>>] >= q) THEN Abort(db, "stack quantity not enough.")
    ELSE LET d1 == stakinglog_sub(db, from, sym, q)
         IN  IF isinstance
             THEN IF ~has_auth(caller, Self) THEN Abort(db, "missing authority")
                  ELSE LET r == unstake_instance(d1, from, sym, q)
                       IN  IF ~r.ok THEN Abort(db, r.err) ELSE r
             ELSE LET r == unstake_deferred(d1, time, from, sym, q)
                  IN  IF ~r.ok THEN Abort(db, r.err) ELSE r

(***************************************************************************)
(* deferrelease reads the amount through the iterator before erase checks  *)
(* it: with no row the amount read is any value, g.                        *)
(***************************************************************************)
\* Mutant: erase accepts the end iterator.
can_erase_anything(table, key) == TRUE

can_erase(table, key) == key \in DOMAIN table

deferrelease(db, caller, from, sym, g) ==
    IF ~has_auth(caller, Self) THEN Abort(db, "missing authority")
    ELSE LET amount == IF <<sym, from>> \in DOMAIN db.unstakinglog
                       THEN db.unstakinglog[<<sym, from>>].amount ELSE g
         IN  IF ~can_erase(db.unstakinglog, <<sym, from>>)
             THEN Abort(db, "cannot pass end iterator to erase")
             ELSE IF sym \notin DOMAIN db.stakestats
             THEN Abort(db, "cannot pass end iterator to modify")
             ELSE IF <<from, sym>> \notin DOMAIN db.accounts
             THEN Abort(db, "no balance object found")
             ELSE Done([db EXCEPT !.unstakinglog = Erase(@, <<sym, from>>),
                                  !.stakestats[sym].unstaking = @ - amount,
                                  !.accounts[<<from, sym>>].stake_balance = @ - amount])

(***************************************************************************)
(* The actions EOSIO_DISPATCH lists.  apply() switches on the action name  *)
(* and has no case for any other name: such a call runs no code of the     *)
(* contract and writes nothing.                                            *)
(***************************************************************************)
Actions == {"init", "create", "issue", "transfer", "deferrelease", "stake", "unstake",
            "lock", "unlock", "setistatus", "setsstatus", "setust", "settstatus"}

apply_unlisted(db, action) == Done(db)

(***************************************************************************)
(* The state machine.  last records the most recent call and its outcome:  *)
(* the arguments of a call that succeeded, the message of one that failed. *)
(* Its undo flag marks an unstake that directly follows a successful stake *)
(* of the same account, symbol and quantity.                               *)
(***************************************************************************)
EmptyTable == [k \in {} |-> 0]

Call(op, caller, from, to, sym, q, inst, r) ==
    IF r.ok
    THEN [op |-> op, caller |-> caller, from |-> from, to |-> to, sym |-> sym,
          q |-> q, inst |-> inst, ok |-> TRUE, err |-> "", undo |-> FALSE]
    ELSE [op |-> op, caller |-> "", from |-> "", to |-> "", sym |-> "",
          q |-> 0, inst |-> FALSE, ok |-> FALSE, err |-> r.err, undo |-> FALSE]

NoCall == Call("none", "", "", "", "", 0, FALSE, Done(0))

Commit(db) ==
    /\ configtable' = db.configtable
    /\ stat' = db.stat
    /\ accounts' = db.accounts
    /\ stakestats' = db.stakestats
    /\ stakinglog' = db.stakinglog
    /\ unstakinglog' = db.unstakinglog
    /\ deferred' = db.deferred

LockInBounds(db) ==
    \A k \in DOMAIN db.accounts : db.accounts[k].lock_balance \in Amounts

Init ==
    /\ configtable = EmptyTable
    /\ stat = EmptyTable
    /\ accounts = EmptyTable
    /\ stakestats = EmptyTable
    /\ stakinglog = EmptyTable
    /\ unstakinglog = EmptyTable
    /\ deferred = {}
    /\ now = 0
    /\ last = NoCall

DoInit(caller) ==
    LET r == init(DB, caller)
    IN  Commit(r.db) /\ now' = now
        /\ last' = Call("init", caller, "", "", "", 0, FALSE, r)

DoCreate(caller, issuer, sym, max) ==
    LET r == create(DB, caller, issuer, sym, max)
    IN  Commit(r.db) /\ now' = now
        /\ last' = Call("create", caller, issuer, "", sym, max, FALSE, r)

DoIssue(caller, to, sym, q) ==
    LET r == issue(DB, caller, to, sym, q)
    IN  Commit(r.db) /\ now' = now
        /\ last' = Call("issue", caller, "", to, sym, q, FALSE, r)

DoTransfer(caller, from, to, sym, q) ==
    LET r == transfer(DB, caller, from, to, sym, q)
    IN  Commit(r.db) /\ now' = now
        /\ last' = Call("transfer", caller, from, to, sym, q, FALSE, r)

DoLock(caller, account, sym, q) ==
    LET r == lock(DB, caller, account, sym, q)
    IN  LockInBounds(r.db) /\ Commit(r.db) /\ now' = now
        /\ last' = Call("lock", caller, account, "", sym, q, FALSE, r)

DoUnlock(caller, account, sym, q) ==
    LET r == unlock(DB, caller, account, sym, q)
    IN  LockInBounds(r.db) /\ Commit(r.db) /\ now' = now
        /\ last' = Call("unlock", caller, account, "", sym, q, FALSE, r)

DoStake(caller, from, sym, q) ==
    LET r == stake(DB, caller, from, sym, q)
    IN  Commit(r.db) /\ now' = now
        /\ last' = Call("stake", caller, from, "", sym, q, FALSE, r)

DoUnstake(caller, from, sym, q, isinstance) ==
    LET r == unstake(DB, now, caller, from, sym, q, isinstance)
    IN  Commit(r.db) /\ now' = now
        /\ last' = [Call("unstake", caller, from, "", sym, q, isinstance, r) EXCEPT
                        !.undo = r.ok /\ last.op = "stake" /\ last.ok /\ last.from = from
                                 /\ last.sym = sym /\ last.q = q]

DoDeferrelease(caller, from, sym, g) ==
    LET r == deferrelease(DB, caller, from, sym, g)
    IN  Commit(r.db) /\ now' = now
        /\ last' = Call("deferrelease", caller, from, "", sym, 0, FALSE, r)

DoSetsstatus(caller, new_status) ==
    LET r == set_config(DB, caller, CONFIG_STAKE_STATUS, to_string(new_status))
    IN  Commit(r.db) /\ now' = now
        /\ last' = Call("setsstatus", caller, "", "", "", new_status, FALSE, r)

DoSetistatus(caller, new_status) ==
    LET r == set_config(DB, caller, CONFIG_ISSUE_STATUS, to_string(new_status))
    IN  Commit(r.db) /\ now' = now
        /\ last' = Call("setistatus", caller, "", "", "", new_status, FALSE, r)

DoSettstatus(caller, new_status) ==
    LET r == set_config(DB, caller, CONFIG_TRANSFER_STATUS, to_string(new_status))
    IN  Commit(r.db) /\ now' = now
        /\ last' = Call("settstatus", caller, "", "", "", new_status, FALSE, r)

DoSetust(caller, new_time_second) ==
    LET r == set_config(DB, caller, CONFIG_UNSTAKE_TIME, to_string(new_time_second))
    IN  Commit(r.db) /\ now' = now
        /\ last' = Call("setust", caller, "", "", "", new_time_second, FALSE, r)

(***************************************************************************)
(* The host runs a deferred transaction once its delay has passed, with    *)
(* the authority of the contract, and drops it whether it succeeds or not. *)
(* last keeps the delay the transaction was sent with.                     *)
(***************************************************************************)
Fire(d, g) ==
    /\ d \in deferred
    /\ now >= d.due
    /\ LET r == deferrelease([DB EXCEPT !.deferred = @ \ {d}], Self, d.from, d.sym, g)
       IN  Commit(r.db) /\ now' = now
           /\ last' = Call("fire", Self, d.from, "", d.sym, d.delay_sec, FALSE, r)

Tick ==
    /\ now < MaxTime
    /\ now' = now + 1
    /\ last' = Call("tick", "", "", "", "", 0, FALSE, Done(0))
    /\ UNCHANGED tables

ConfigOps ==
    \/ \E c \in Callers : DoInit(c)
    \/ \E c \in Callers, v \in StatusValues : DoSetsstatus(c, v)
    \/ \E c \in Callers, v \in StatusValues : DoSetistatus(c, v)
    \/ \E c \in Callers, v \in StatusValues : DoSettstatus(c, v)
    \/ \E c \in Callers, v \in StatusValues : DoSetust(c, v)

TokenOps(Ss) ==
    \/ \E c \in Callers, i \in Users, s \in Ss, m \in 0 .. MaxAmount : DoCreate(c, i, s, m)
    \/ \E c \in Callers, t \in Names, s \in Ss, q \in Quantities : DoIssue(c, t, s, q)
    \/ \E c \in Callers, f \in Users, t \in Names, s \in Ss, q \in Quantities :
          DoTransfer(c, f, t, s, q)

LockOps(Ss) ==
    \/ \E c \in Callers, a \in Users, s \in Ss, q \in SignedQuantities : DoLock(c, a, s, q)
    \/ \E c \in Callers, a \in Users, s \in Ss, q \in SignedQuantities : DoUnlock(c, a, s, q)

StakeOps(Us, Ss) ==
    \/ \E c \in Callers, f \in Us, s \in Ss, q \in Quantities : DoStake(c, f, s, q)
    \/ \E c \in Callers, f \in Us, s \in Ss, q \in Quantities, i \in BOOLEAN :
          DoUnstake(c, f, s, q, i)

ReleaseOps(Us, Ss) ==
    \E c \in Callers, f \in Us, s \in Ss, g \in Garbage : DoDeferrelease(c, f, s, g)

HostOps ==
    \/ \E d \in deferred, g \in Garbage : Fire(d, g)
    \/ Tick

Next ==
    \/ ConfigOps
    \/ TokenOps(Symbols)
    \/ LockOps(Symbols)
    \/ StakeOps(Users, Symbols)
    \/ ReleaseOps(Users, Symbols)
    \/ HostOps

Spec == Init /\ [][Next]_vars

(***************************************************************************)
(* Specifications of parts of the contract.  Each starts in a state the    *)
(* contract reaches from Init, computed with the operations themselves,    *)
(* and takes the steps of Next that belong to the part.                    *)
(***************************************************************************)
EmptyDB == [configtable |-> EmptyTable, stat |-> EmptyTable, accounts |-> EmptyTable,
            stakestats |-> EmptyTable, stakinglog |-> EmptyTable,
            unstakinglog |-> EmptyTable, deferred |-> {}]

InitFrom(db) ==
    /\ configtable = db.configtable
    /\ stat = db.stat
    /\ accounts = db.accounts
    /\ stakestats = db.stakestats
    /\ stakinglog = db.stakinglog
    /\ unstakinglog = db.unstakinglog
    /\ deferred = db.deferred
    /\ now = 0
    /\ last = NoCall

\* init() has run.
Booted == init(EmptyDB, Self).db

\* init() has run and the operator has set the unstake delay to one second.
ShortDelay == set_config(Booted, Self, CONFIG_UNSTAKE_TIME, to_string(1)).db

\* The token ledger from construction: init, create, issue, transfer.  init
\* and create are called by the contract or by a user, issue by a user who may
\* or may not be the issuer, transfer by the sender (transfers signed by
\* somebody else are part of SpecBalance).
NextToken ==
    \/ \E c \in {Self, "alice"} : DoInit(c)
    \/ \E c \in {Self, "alice"}, i \in Users, s \in Symbols, m \in 0 .. MaxAmount :
          DoCreate(c, i, s, m)
    \/ \E c \in Users, t \in Names, s \in Symbols, q \in Quantities : DoIssue(c, t, s, q)
    \/ \E f \in Users, t \in Names, s \in Symbols, q \in Quantities :
          DoTransfer(f, f, t, s, q)

SpecToken == Init /\ [][NextToken]_vars

\* alice is the issuer of A and holds MaxAmount + 1 of it; bob has no row.
BalanceDB ==
    LET d1 == create(Booted, Self, "alice", "A", MaxAmount + 1).db
    IN  issue(d1, "alice", "alice", "A", MaxAmount + 1).db

NextBalance ==
    \/ \E c \in Callers, f \in Users, t \in Names, q \in Quantities :
          DoTransfer(c, f, t, "A", q)
    \/ LockOps({"A"})
    \/ \E c \in Callers, f \in Users, q \in Quantities : DoStake(c, f, "A", q)

SpecBalance == InitFrom(BalanceDB) /\ [][NextBalance]_vars

\* alice and bob hold MaxAmount of A each.
StakeDB ==
    LET d1 == create(ShortDelay, Self, "alice", "A", 2 * MaxAmount).db
        d2 == issue(d1, "alice", "alice", "A", MaxAmount).db
    IN  issue(d2, "alice", "bob", "A", MaxAmount).db

NextStake ==
    \/ StakeOps(Users, {"A"})
    \/ ReleaseOps(Users, {"A"})
    \/ HostOps

SpecStake == InitFrom(StakeDB) /\ [][NextStake]_vars

\* alice holds MaxAmount of A and of B; deferrelease runs only as a callback.
TwoSymbolsDB ==
    LET d1 == create(ShortDelay, Self, "alice", "A", MaxAmount).db
        d2 == issue(d1, "alice", "alice", "A", MaxAmount).db
        d3 == create(d2, Self, "alice", "B", MaxAmount).db
    IN  issue(d3, "alice", "alice", "B", MaxAmount).db

NextTwoSymbols ==
    \/ StakeOps({"alice"}, Symbols)
    \/ HostOps

SpecTwoSymbols == InitFrom(TwoSymbolsDB) /\ [][NextTwoSymbols]_vars

\* The same under a fair host: time passes and a callback that is due runs.
\* A deferred unstake is taken only while its callback falls due by MaxTime.
NextFairTwoSymbols ==
    \/ \E c \in Callers, sym \in Symbols, q \in Quantities : DoStake(c, "alice", sym, q)
    \/ \E c \in Callers, sym \in Symbols, q \in Quantities, i \in BOOLEAN :
          /\ DoUnstake(c, "alice", sym, q, i)
          /\ \A d \in deferred' : d.due <= MaxTime
    \/ HostOps

FairTwoSymbols ==
    /\ InitFrom(TwoSymbolsDB)
    /\ [][NextFairTwoSymbols]_vars
    /\ WF_vars(Tick)
    /\ WF_vars(\E d \in deferred, g \in Garbage : Fire(d, g))

\* The delays setust is called with.
Delays == 0 .. MaxTime

\* alice stakes and unstakes A and B while the operator changes the unstake
\* delay, releases by hand, time passes and the host runs the callbacks.
NextTimer ==
    \/ \E c \in {Self, "alice"}, v \in Delays : DoSetust(c, v)
    \/ StakeOps({"alice"}, Symbols)
    \/ \E s \in Symbols, g \in Garbage : DoDeferrelease(Self, "alice", s, g)
    \/ HostOps

\* alice holds 2 of A, enough for two requests, and 1 of B.
TimerDB ==
    LET d1 == create(ShortDelay, Self, "alice", "A", 2).db
        d2 == issue(d1, "alice", "alice", "A", 2).db
        d3 == create(d2, Self, "alice", "B", 1).db
    IN  issue(d3, "alice", "alice", "B", 1).db

SpecTimer == InitFrom(TimerDB) /\ [][NextTimer]_vars

\* The contract from construction with the operator setting and clearing the
\* flags: one symbol, created for alice with a cap of 2, issued, transferred
\* and staked.
NextGate ==
    \/ \E c \in {Self, "alice"} : DoInit(c)
    \/ \E c \in {Self, "alice"}, v \in StatusValues : DoSetsstatus(c, v)
    \/ \E c \in {Self, "alice"}, v \in StatusValues : DoSetistatus(c, v)
    \/ \E c \in {Self, "alice"}, v \in StatusValues : DoSettstatus(c, v)
    \/ \E c \in {Self, "alice"} : DoCreate(c, "alice", "A", 2)
    \/ \E c \in Users, t \in Users, q \in Quantities : DoIssue(c, t, "A", q)
    \/ \E f \in Users, t \in Users, q \in Quantities : DoTransfer(f, f, t, "A", q)
    \/ \E c \in Users, q \in Quantities : DoStake(c, "alice", "A", q)
    \/ \E c \in Callers, q \in Quantities, i \in BOOLEAN : DoUnstake(c, "alice", "A", q, i)

SpecGate == Init /\ [][NextGate]_vars

\* The config table alone: init and the four setters, by every caller.
SpecConfig == Init /\ [][ConfigOps]_vars

\* alice is the issuer of A, nothing issued yet.
IssueDB == create(Booted, Self, "alice", "A", 2 * MaxAmount).db

\* Issues to the issuer, to bob and to a name without an account, while the
\* operator sets and clears the transfer flag and locks and unlocks.
NextIssue ==
    \/ \E c \in {Self, "alice"}, v \in StatusValues : DoSettstatus(c, v)
    \/ \E c \in Users, t \in Names, q \in Quantities : DoIssue(c, t, "A", q)
    \/ \E f \in Users, t \in Users, q \in Quantities : DoTransfer(f, f, t, "A", q)
    \/ \E a \in Users, q \in SignedQuantities : DoLock(Self, a, "A", q)
    \/ \E a \in Users, q \in SignedQuantities : DoUnlock(Self, a, "A", q)

SpecIssue == InitFrom(IssueDB) /\ [][NextIssue]_vars

\* alice is the issuer of A and holds 1 of a cap of 2.
LedgerDB ==
    LET d1 == create(ShortDelay, Self, "alice", "A", 2).db
    IN  issue(d1, "alice", "alice", "A", 1).db

\* Every operation that touches balances or stakes, on the one symbol: alice
\* issues, transfers, stakes and unstakes, bob and the contract account
\* receive, bob sends, the operator locks, unlocks, unstakes and releases.
NextLedger ==
    \/ \E t \in Users, q \in Quantities : DoIssue("alice", t, "A", q)
    \/ \E f \in Users, t \in Callers, q \in Quantities : DoTransfer(f, f, t, "A", q)
    \/ \E q \in SignedQuantities : DoLock(Self, "alice", "A", q)
    \/ \E q \in SignedQuantities : DoUnlock(Self, "alice", "A", q)
    \/ \E q \in Quantities : DoStake("alice", "alice", "A", q)
    \/ \E c \in {Self, "alice"}, q \in Quantities, i \in BOOLEAN : DoUnstake(c, "alice", "A", q, i)
    \/ \E g \in Garbage : DoDeferrelease(Self, "alice", "A", g)
    \/ HostOps

SpecLedger == InitFrom(LedgerDB) /\ [][NextLedger]_vars

(***************************************************************************)
(* Properties.                                                             *)
(***************************************************************************)
Bal(db, owner, sym) ==
    IF <<owner, sym>> \in DOMAIN db.accounts THEN db.accounts[<<owner, sym>>].balance ELSE 0

\* C1: every account row has balance >= locked + staked, locked >= 0 and
\* staked >= 0, after any sequence of calls with the quantities the
\* operations accept.
C1_BalanceCoversLockedAndStaked ==
    \A k \in DOMAIN accounts :
        /\ accounts[k].balance >= accounts[k].lock_balance + accounts[k].stake_balance
        /\ accounts[k].lock_balance >= 0
        /\ accounts[k].stake_balance >= 0

RECURSIVE SumOver(_, _)
SumOver(f, S) ==
    IF S = {} THEN 0
    ELSE LET x == CHOOSE y \in S : TRUE IN f[x] + SumOver(f, S \ {x})

StakeLogTotal(sym) ==
    SumOver(stakinglog, {k \in DOMAIN stakinglog : k[1] = sym})

UnstakeLogTotal(sym) ==
    SumOver([k \in DOMAIN unstakinglog |-> unstakinglog[k].amount],
            {k \in DOMAIN unstakinglog : k[1] = sym})

Staking(sym) == IF sym \in DOMAIN stakestats THEN stakestats[sym].staking ELSE 0

Unstaking(sym) == IF sym \in DOMAIN stakestats THEN stakestats[sym].unstaking ELSE 0

\* C2: for every symbol the staking aggregate equals the sum of the staking
\* log rows of the symbol, the unstaking aggregate equals the sum of its
\* unstaking log rows (no stakestats row counting as 0/0), and both are >= 0.
C2_StakeStatsEqualLogSums ==
    \A sym \in Symbols :
        /\ Staking(sym) = StakeLogTotal(sym)
        /\ Unstaking(sym) = UnstakeLogTotal(sym)
        /\ Staking(sym) >= 0
        /\ Unstaking(sym) >= 0

\* Both accounts have taken part: a release has just run for one of them while
\* the other has an active stake and the first still has a pending unstake
\* request or stake of its own.
C2_Witness ==
    /\ last.op = "fire" /\ last.ok
    /\ \E u \in Users \ {last.from} :
          /\ <<"A", u>> \in DOMAIN stakinglog
          /\ <<"A", u>> \in DOMAIN unstakinglog
    /\ <<"A", last.from>> \in DOMAIN stakinglog
    /\ Staking("A") >= 2
    /\ Unstaking("A") >= 1

\* C3: for every created symbol 0 <= supply <= max_supply and max_supply > 0;
\* create rejects max_supply <= 0 and a duplicate symbol; issue is rejected,
\* the tables left as they are, when q <= 0 or q > max_supply - supply; and
\* issuing exactly max_supply - supply is not rejected for the cap and
\* succeeds when the issuer issues to itself.
C3_SupplyWithinCap ==
    /\ \A sym \in DOMAIN stat :
          /\ 0 <= stat[sym].supply
          /\ stat[sym].supply <= stat[sym].max_supply
          /\ stat[sym].max_supply > 0
    /\ \A c \in Callers, i \in Users, sym \in Symbols, m \in 0 .. MaxAmount :
          (m <= 0 \/ sym \in DOMAIN stat) =>
             LET r == create(DB, c, i, sym, m) IN ~r.ok /\ r.db = DB
    /\ \A c \in Callers, t \in Names, sym \in DOMAIN stat, q \in Quantities :
          LET r == issue(DB, c, t, sym, q)
              room == stat[sym].max_supply - stat[sym].supply
          IN  /\ (q <= 0 \/ q > room) => (~r.ok /\ r.db = DB)
              /\ (q > 0 /\ q = room) => r.err # "quantity exceeds available supply"
              /\ (q > 0 /\ q = room /\ assert_status(DB, CONFIG_ISSUE_STATUS)
                    /\ c = stat[sym].issuer /\ t = stat[sym].issuer) =>
                    (r.ok /\ r.db.stat[sym].supply = stat[sym].max_supply)

\* An issue has just filled the cap exactly, after an earlier issue.
C3_Witness ==
    /\ last.op = "issue" /\ last.ok
    /\ last.q < stat[last.sym].max_supply
    /\ stat[last.sym].supply = stat[last.sym].max_supply

\* What an account can spend, a missing row counting as nothing.
Free(db, owner, sym) ==
    IF <<owner, sym>> \in DOMAIN db.accounts
    THEN db.accounts[<<owner, sym>>].balance - db.accounts[<<owner, sym>>].lock_balance
         - db.accounts[<<owner, sym>>].stake_balance
    ELSE 0

\* The rows of db2 other than those of keys K are the rows of db1.
SameRowsExcept(db1, db2, K) ==
    /\ DOMAIN db2.accounts \ K = DOMAIN db1.accounts \ K
    /\ \A k \in DOMAIN db1.accounts \ K : db2.accounts[k] = db1.accounts[k]

\* C6: with the transfer flag on, from # to, from authorizing, to an existing
\* account and q > 0 of a created symbol, transfer succeeds exactly when
\* q <= from.balance - from.locked - from.staked; then from.balance falls and
\* to.balance rises by q (a missing to row is created with locked = staked = 0)
\* and nothing else changes; when it fails no table changes.
C6_TransferWithinAvailable ==
    \A f \in Users, t \in Names, sym \in DOMAIN stat, q \in Quantities :
        (assert_status(DB, CONFIG_TRANSFER_STATUS) /\ f # t /\ is_account(t) /\ q > 0) =>
           LET r == transfer(DB, f, f, t, sym, q)
           IN  /\ r.ok <=> q <= Free(DB, f, sym)
               /\ ~r.ok => r.db = DB
               /\ r.ok =>
                    /\ r.db.accounts[<<f, sym>>] =
                          [accounts[<<f, sym>>] EXCEPT !.balance = @ - q]
                    /\ <<t, sym>> \in DOMAIN r.db.accounts
                    /\ r.db.accounts[<<t, sym>>] =
                          IF <<t, sym>> \in DOMAIN accounts
                          THEN [accounts[<<t, sym>>] EXCEPT !.balance = @ + q]
                          ELSE [balance |-> q, lock_balance |-> 0, stake_balance |-> 0]
                    /\ SameRowsExcept(DB, r.db, {<<f, sym>>, <<t, sym>>})
                    /\ [r.db EXCEPT !.accounts = accounts] = DB

\* A transfer of all that was available has just succeeded from a row with a
\* locked and a staked part, creating the row of the receiver; one more unit
\* is refused.
C6_Witness ==
    /\ last.op = "transfer" /\ last.ok
    /\ accounts[<<last.from, last.sym>>].lock_balance > 0
    /\ accounts[<<last.from, last.sym>>].stake_balance > 0
    /\ Free(DB, last.from, last.sym) = 0
    /\ accounts[<<last.to, last.sym>>] =
          [balance |-> last.q, lock_balance |-> 0, stake_balance |-> 0]
    /\ ~transfer(DB, last.from, last.from, last.to, last.sym, 1).ok

\* C7: a successful issue(to, q) raises supply by exactly q and the balance of
\* to by exactly q; when to is not the issuer the issuer's balance is the same
\* after the call as before (a missing row counting as 0), and no row of
\* another account changes.
C7_IssueCreditsRecipient ==
    \A c \in Callers, t \in Names, sym \in DOMAIN stat, q \in Quantities :
        LET r == issue(DB, c, t, sym, q)
            issuer == stat[sym].issuer
        IN  r.ok =>
              /\ r.db.stat[sym] = [stat[sym] EXCEPT !.supply = @ + q]
              /\ Bal(r.db, t, sym) = Bal(DB, t, sym) + q
              /\ t # issuer => Bal(r.db, issuer, sym) = Bal(DB, issuer, sym)
              /\ SameRowsExcept(DB, r.db, {<<t, sym>>, <<issuer, sym>>})
              /\ \A k \in {<<t, sym>>, <<issuer, sym>>} \cap DOMAIN accounts :
                    /\ r.db.accounts[k].lock_balance = accounts[k].lock_balance
                    /\ r.db.accounts[k].stake_balance = accounts[k].stake_balance

\* The issuer has issued to itself and then to another account: the second
\* issue has just succeeded, the other account holds what was issued to it
\* and the issuer still holds the rest of the supply.
C7_Witness ==
    /\ last.op = "issue" /\ last.ok
    /\ last.to # stat[last.sym].issuer
    /\ Bal(DB, last.to, last.sym) = last.q
    /\ Bal(DB, stat[last.sym].issuer, last.sym) > 0
    /\ stat[last.sym].supply = last.q + Bal(DB, stat[last.sym].issuer, last.sym)

CallbacksOf(db, u) == {d \in db.deferred : d.sender_id = u}

StakingOf(db, sym) == IF sym \in DOMAIN db.stakestats THEN db.stakestats[sym].staking ELSE 0

UnstakingOf(db, sym) == IF sym \in DOMAIN db.stakestats THEN db.stakestats[sym].unstaking ELSE 0

\* C4: an account never has two release callbacks pending; and when an account
\* with no pending request makes a deferred unstake of q1 now and one of q2 of
\* the same symbol at a time t2, before any release, there is one unstaking log
\* row for it with amount q1 + q2 and request time t2 and one callback, due at
\* t2 plus the delay; that callback deletes the row, lowers the staked part of
\* the account and the unstaking aggregate by q1 + q2, so that q1 + q2 more is
\* available than before the requests, and leaves no callback behind.
C4_TwoRequestsOneRelease ==
    /\ \A u \in Users : Cardinality(CallbacksOf(DB, u)) <= 1
    /\ \A u \in Users, sym \in Symbols, q1 \in Quantities, q2 \in Quantities,
          t2 \in now .. MaxTime, g \in Garbage :
          LET r1 == unstake(DB, now, u, u, sym, q1, FALSE)
              r2 == unstake(r1.db, t2, u, u, sym, q2, FALSE)
              cb == [sender_id |-> u, from |-> u, sym |-> sym,
                     delay_sec |-> get_unstake_time(DB),
                     due |-> t2 + get_unstake_time(DB)]
              r3 == deferrelease([r2.db EXCEPT !.deferred = @ \ {cb}], Self, u, sym, g)
          IN  (<<sym, u>> \notin DOMAIN unstakinglog /\ r1.ok /\ r2.ok) =>
                /\ r2.db.unstakinglog[<<sym, u>>] = [amount |-> q1 + q2, request_time |-> t2]
                /\ CallbacksOf(r2.db, u) = {cb}
                /\ r2.db.accounts = accounts
                /\ r3.ok
                /\ <<sym, u>> \notin DOMAIN r3.db.unstakinglog
                /\ r3.db.accounts[<<u, sym>>] =
                      [accounts[<<u, sym>>] EXCEPT !.stake_balance = @ - (q1 + q2)]
                /\ UnstakingOf(r3.db, sym) = UnstakingOf(r2.db, sym) - (q1 + q2)
                /\ UnstakingOf(r3.db, sym) = Unstaking(sym)
                /\ Free(r3.db, u, sym) = Free(DB, u, sym) + q1 + q2
                /\ CallbacksOf(r3.db, u) = {}

\* A second deferred unstake has just been merged, at a later time, into the
\* pending request of the account: one row, one callback, timed from now.
C4_Witness ==
    /\ last.op = "unstake" /\ last.ok /\ ~last.inst
    /\ now > 0
    /\ unstakinglog[<<last.sym, last.from>>].amount > last.q
    /\ unstakinglog[<<last.sym, last.from>>].request_time = now
    /\ CallbacksOf(DB, last.from) =
          {[sender_id |-> last.from, from |-> last.from, sym |-> last.sym,
            delay_sec |-> 1, due |-> now + 1]}

C8_StakeUnstakeRoundTrip ==
    \A u \in Users, sym \in Symbols, q \in Quantities :
        LET r1 == stake(DB, u, u, sym, q)
            r2 == unstake(r1.db, now, Self, u, sym, q, TRUE)
        IN  r1.ok =>
              /\ r2.ok
              /\ r2.db.accounts = accounts
              /\ r2.db.stakinglog = stakinglog
              /\ StakingOf(r2.db, sym) = Staking(sym)
              /\ r1.db.unstakinglog = unstakinglog /\ r2.db.unstakinglog = unstakinglog
              /\ UnstakingOf(r1.db, sym) = Unstaking(sym)
              /\ UnstakingOf(r2.db, sym) = Unstaking(sym)
              /\ r1.db.deferred = deferred /\ r2.db.deferred = deferred
              /\ \A other \in DOMAIN stakestats \ {sym} :
                    other \in DOMAIN r2.db.stakestats
                    /\ r2.db.stakestats[other] = stakestats[other]

\* An immediate unstake has just undone the stake made directly before it, for
\* an account that has an unstake request pending and no staking log row.
C8_Witness ==
    /\ last.op = "unstake" /\ last.ok /\ last.inst /\ last.undo
    /\ <<last.sym, last.from>> \in DOMAIN unstakinglog
    /\ <<last.sym, last.from>> \notin DOMAIN stakinglog
    /\ CallbacksOf(DB, last.from) # {}

\* C9: when deferrelease runs only as a scheduled callback, an unstaking log
\* row of an account and symbol always has a callback scheduled for that
\* account and symbol, also when the account has requests for two symbols.
C9_PendingRequestHasCallback ==
    \A k \in DOMAIN unstakinglog :
        \E d \in deferred : d.from = k[2] /\ d.sym = k[1]

\* C10: under a fair host every deferred unstake request of an account and
\* symbol is eventually released, whatever the account requests for other
\* symbols (the model allows only finitely many requests).
C10_EveryRequestReleased ==
    \A sym \in Symbols :
        (<<sym, "alice">> \in DOMAIN unstakinglog) ~> (<<sym, "alice">> \notin DOMAIN unstakinglog)

\* C11: a release callback of an account that runs and releases does so no
\* earlier than the request time of the account's unstaking log row plus the
\* delay that was configured when that request was made; every deferred
\* unstake sets the request time of the row to the time of the call and
\* replaces the callback of the account by one due that time plus the delay
\* configured then; and an account never has more than one callback pending.
C11_NoEarlyRelease ==
    [][ /\ (last'.op = "fire" /\ last'.ok) =>
              \E d \in deferred \ deferred' :
                  /\ d.from = last'.from /\ d.sym = last'.sym
                  /\ now >= unstakinglog[<<d.sym, d.from>>].request_time + d.delay_sec
        /\ (last'.op = "unstake" /\ last'.ok /\ ~last'.inst) =>
              /\ unstakinglog'[<<last'.sym, last'.from>>].request_time = now
              /\ {d \in deferred' : d.sender_id = last'.from} =
                    {[sender_id |-> last'.from, from |-> last'.from, sym |-> last'.sym,
                      delay_sec |-> get_unstake_time(DB),
                      due |-> now + get_unstake_time(DB)]}
        /\ \A u \in Users : Cardinality({d \in deferred' : d.sender_id = u}) <= 1
      ]_vars

\* A callback sent with a delay of one second has just released a request at
\* the last moment of the clock, after the operator has set the delay to 0.
C11_Witness ==
    /\ last.op = "fire" /\ last.ok
    /\ last.q = 1
    /\ now = MaxTime
    /\ get_unstake_time(DB) = 0
    /\ <<last.sym, last.from>> \notin DOMAIN unstakinglog
    /\ deferred = {}

StakeRow(db, sym, u) == IF <<sym, u>> \in DOMAIN db.stakinglog THEN db.stakinglog[<<sym, u>>] ELSE 0

\* C12: unstake(from, q, isinstance) fails and changes no table and no callback
\* when the caller is neither from nor the contract, when isinstance is set and
\* the caller is not the contract (from included), when from has no staking log
\* row or one of less than q, and when q <= 0; a call that succeeds takes q off
\* a row that held at least q, and no staking log row is ever below 1, so an
\* account never unstakes more than it staked.
C12_UnstakeRejections ==
    /\ \A k \in DOMAIN stakinglog : stakinglog[k] > 0
    /\ \A c \in Callers, f \in Users, sym \in Symbols, q \in SignedQuantities, i \in BOOLEAN :
          LET r == unstake(DB, now, c, f, sym, q, i)
          IN  /\ ( \/ c \notin {f, Self}
                   \/ (i /\ c # Self)
                   \/ <<sym, f>> \notin DOMAIN stakinglog
                   \/ StakeRow(DB, sym, f) < q
                   \/ q <= 0 ) => (~r.ok /\ r.db = DB)
              /\ r.ok => /\ StakeRow(DB, sym, f) >= q
                         /\ StakeRow(r.db, sym, f) = StakeRow(DB, sym, f) - q

\* An unstake of more than the staking log row holds has just been refused,
\* the row being what an earlier stake and an earlier unstake left of it.
C12_Witness ==
    /\ last.op = "unstake" /\ ~last.ok
    /\ last.err = "stack quantity not enough."
    /\ \E u \in Users :
          /\ StakeRow(DB, "A", u) = 1
          /\ <<"A", u>> \in DOMAIN unstakinglog

FeatureDisabled == "current status do not allow doing this action."

\* The flag is absent from the config table or holds the value 0.
FlagOff(key) == key \notin DOMAIN configtable \/ configtable[key] = to_string(0)

AlreadyInitialized == "not allow init."

InitDone == CONFIG_INIT \in DOMAIN configtable

Defaults ==
    [k \in {CONFIG_STAKE_STATUS, CONFIG_ISSUE_STATUS, CONFIG_TRANSFER_STATUS,
            CONFIG_UNSTAKE_TIME, CONFIG_INIT} |->
        IF k = CONFIG_UNSTAKE_TIME THEN to_string(86400) ELSE to_string(1)]

\* The first init of the operator succeeds and leaves the five defaults.
FirstInitSetsDefaults ==
    ~InitDone =>
        LET r == init(DB, Self)
        IN  r.ok /\ r.db.configtable = Defaults /\ [r.db EXCEPT !.configtable = configtable] = DB

\* C14 as stated: the first successful init sets the stake, issue and transfer
\* flags to 1, the unstake delay to 86400 and the init entry; from then on,
\* whatever the setters do, every further init call fails as already
\* initialized and changes no config entry.
C14_EveryFurtherInitFailsAsDone ==
    /\ FirstInitSetsDefaults
    /\ InitDone =>
          \A c \in Callers :
              LET r == init(DB, c)
              IN  ~r.ok /\ r.err = AlreadyInitialized /\ r.db = DB

\* C14 amended: as above, but a further init call fails as already initialized
\* when the contract account signs it and for want of its authority otherwise;
\* in both cases no config entry changes, and the init entry once set stays.
C14_InitOnlyOnce ==
    /\ FirstInitSetsDefaults
    /\ InitDone =>
          /\ configtable[CONFIG_INIT] = to_string(1)
          /\ \A c \in Callers :
                LET r == init(DB, c)
                IN  /\ ~r.ok /\ r.db = DB
                    /\ r.err = IF c = Self THEN AlreadyInitialized ELSE "missing authority"

\* The operator has cleared the issue and the transfer flag after init, and a
\* further init of the operator has just been refused, leaving them cleared.
C14_Witness ==
    /\ last.op = "init" /\ ~last.ok /\ last.err = AlreadyInitialized
    /\ InitDone
    /\ configtable[CONFIG_ISSUE_STATUS] = to_string(0)
    /\ configtable[CONFIG_TRANSFER_STATUS] = to_string(0)
    /\ configtable[CONFIG_STAKE_STATUS] = to_string(1)

\* C15: for every quantity, negative and zero included, lock(account, q)
\* succeeds only when the contract calls it on an existing row with
\* balance - locked - staked >= q and then adds q to locked; unlock(account, q)
\* succeeds only when locked >= q and then takes q off locked; a call that
\* fails changes nothing, and one that succeeds changes nothing but the locked
\* field of that row.
C15_LockTouchesOnlyLocked ==
    \A c \in Callers, a \in Users, sym \in Symbols, q \in SignedQuantities :
        LET k == <<a, sym>>
            l == lock(DB, c, a, sym, q)
            u == unlock(DB, c, a, sym, q)
        IN  /\ l.ok => (c = Self /\ k \in DOMAIN accounts /\ Free(DB, a, sym) >= q)
            /\ u.ok => (c = Self /\ k \in DOMAIN accounts /\ accounts[k].lock_balance >= q)
            /\ ~l.ok => l.db = DB
            /\ ~u.ok => u.db = DB
            /\ l.ok => l.db = [DB EXCEPT !.accounts[k].lock_balance = accounts[k].lock_balance + q]
            /\ u.ok => u.db = [DB EXCEPT !.accounts[k].lock_balance = accounts[k].lock_balance - q]

\* An unlock has just succeeded on a row that has a staked part and still a
\* locked part, where unlocking one unit more than is locked is refused.
C15_Witness ==
    /\ last.op = "unlock" /\ last.ok /\ last.q > 0
    /\ accounts[<<last.from, last.sym>>].lock_balance > 0
    /\ accounts[<<last.from, last.sym>>].stake_balance > 0
    /\ ~unlock(DB, Self, last.from, last.sym,
               accounts[<<last.from, last.sym>>].lock_balance + 1).ok

\* C16: raise_cap is one of the operations of the contract; called by the
\* issuer of a symbol with a new cap below the supply it fails and leaves the
\* stat row as it is, otherwise it changes max_supply of the row to the new
\* cap and nothing else, so that max_supply is never below supply.
C16_RaiseCapOnSurface ==
    /\ "raise_cap" \in Actions
    /\ \A sym \in DOMAIN stat, new_max \in 0 .. MaxAmount :
          LET r == apply_unlisted(DB, "raise_cap")
          IN  /\ new_max < stat[sym].supply => (~r.ok /\ r.db = DB)
              /\ new_max >= stat[sym].supply =>
                    r.db = [DB EXCEPT !.stat[sym].max_supply = new_max]
    /\ \A sym \in DOMAIN stat : stat[sym].max_supply >= stat[sym].supply

UnstakeRow(db, sym, u) ==
    IF <<sym, u>> \in DOMAIN db.unstakinglog THEN db.unstakinglog[<<sym, u>>].amount ELSE 0

\* C17: a deferred unstake(from, q, 0) that succeeds lowers the staking
\* aggregate by q, raises the unstaking aggregate by q, lowers the staking log
\* row by q, deleting it at zero, and leaves every account row and the supply
\* as they are: the available balance of from is what it was, so that no more
\* than was available before can be transferred, locked or staked after it.
C17_DeferredUnstakeKeepsStaked ==
    \A c \in Callers, u \in Users, sym \in Symbols, q \in Quantities :
        LET r == unstake(DB, now, c, u, sym, q, FALSE)
        IN  r.ok =>
              /\ StakingOf(r.db, sym) = Staking(sym) - q
              /\ UnstakingOf(r.db, sym) = Unstaking(sym) + q
              /\ StakeRow(r.db, sym, u) = StakeRow(DB, sym, u) - q
              /\ <<sym, u>> \in DOMAIN r.db.stakinglog <=> StakeRow(DB, sym, u) > q
              /\ UnstakeRow(r.db, sym, u) = UnstakeRow(DB, sym, u) + q
              /\ r.db.accounts = accounts
              /\ r.db.stat = stat
              /\ Free(r.db, u, sym) = Free(DB, u, sym)
              /\ \A q2 \in 1 .. (2 * MaxAmount) :
                    q2 > Free(DB, u, sym) =>
                       /\ \A t \in Users \ {u} : ~transfer(r.db, u, u, t, sym, q2).ok
                       /\ ~lock(r.db, Self, u, sym, q2).ok
                       /\ ~stake(r.db, u, u, sym, q2).ok

\* A deferred unstake has just taken the last of the staking log row of an
\* account whose whole balance is staked: the row is gone, the account row
\* still counts all of it as staked and nothing is available.
C17_Witness ==
    /\ last.op = "unstake" /\ last.ok /\ ~last.inst
    /\ <<last.sym, last.from>> \notin DOMAIN stakinglog
    /\ accounts[<<last.from, last.sym>>].stake_balance = MaxAmount
    /\ UnstakeRow(DB, last.sym, last.from) = MaxAmount
    /\ Free(DB, last.from, last.sym) = 0
    /\ ~transfer(DB, last.from, last.from, Self, last.sym, 1).ok

\* C18: issue(to, q) with to other than the issuer takes effect only with its
\* inline transfer from the issuer to to: where that transfer is not allowed
\* (transfer flag absent or 0, to not an account, or less than q available to
\* the issuer after the credit) the issue fails and the supply and every
\* account row are as before; the supply never rises without to being
\* credited by as much.
C18_IssueAllOrNothing ==
    \A c \in Callers, t \in Names, sym \in DOMAIN stat, q \in Quantities :
        LET issuer == stat[sym].issuer
            r == issue(DB, c, t, sym, q)
        IN  t # issuer =>
              /\ ( \/ FlagOff(CONFIG_TRANSFER_STATUS)
                   \/ ~is_account(t)
                   \/ Free(DB, issuer, sym) + q < q ) =>
                    (~r.ok /\ r.db = DB)
              /\ ~r.ok => (r.db.stat = stat /\ r.db.accounts = accounts)
              /\ Bal(r.db, t, sym) - Bal(DB, t, sym) = r.db.stat[sym].supply - stat[sym].supply
              /\ r.ok => r.db.stat[sym].supply = stat[sym].supply + q

\* An issue has just failed in its inline transfer: the issue flag is on, the
\* transfer flag is 0, and tokens issued earlier are held by bob.
C18_Witness ==
    /\ last.op = "issue" /\ ~last.ok /\ last.err = FeatureDisabled
    /\ assert_status(DB, CONFIG_ISSUE_STATUS)
    /\ configtable[CONFIG_TRANSFER_STATUS] = to_string(0)
    /\ Bal(DB, "bob", "A") > 0
    /\ stat["A"].supply < stat["A"].max_supply

BalanceTotal(db, sym) ==
    SumOver([k \in DOMAIN db.accounts |-> db.accounts[k].balance],
            {k \in DOMAIN db.accounts : k[2] = sym})

SupplyOf(db, sym) == IF sym \in DOMAIN db.stat THEN db.stat[sym].supply ELSE 0

\* The balances of the symbol add up to delta more after the step than before
\* it, and so does its supply.
TotalsMoveBy(sym, delta) ==
    /\ BalanceTotal(DB', sym) = BalanceTotal(DB, sym) + delta
    /\ SupplyOf(DB', sym) = SupplyOf(DB, sym) + delta

\* C19: for every symbol the balances of all account rows of the symbol add up
\* to its supply; an issue that succeeds raises the sum and the supply by the
\* quantity issued, and every other step - transfer, lock, unlock, stake,
\* unstake, deferrelease, called or scheduled, successful or not - leaves both
\* as they are.
C19_BalancesAddUpToSupply ==
    /\ [](\A sym \in Symbols : BalanceTotal(DB, sym) = SupplyOf(DB, sym))
    /\ [][\A sym \in Symbols :
             IF last'.op = "issue" /\ last'.ok /\ last'.sym = sym
             THEN TotalsMoveBy(sym, last'.q)
             ELSE TotalsMoveBy(sym, 0)]_vars

\* A callback has just released a stake of alice, after a second issue has
\* filled the cap and alice has sent part of the supply to the contract account.
C19_Witness ==
    /\ last.op = "fire" /\ last.ok
    /\ Bal(DB, Self, "A") > 0
    /\ Bal(DB, "alice", "A") > 0
    /\ stat["A"].supply = stat["A"].max_supply

Staked(db, u, sym) ==
    IF <<u, sym>> \in DOMAIN db.accounts THEN db.accounts[<<u, sym>>].stake_balance ELSE 0

\* C20: for every account and symbol the staked part of the account row is the
\* amount of the account's staking log row plus the amount of its unstaking
\* log row, a missing row counting as 0, whatever the order of stakes,
\* immediate and deferred unstakes and releases.
C20_StakedEqualsLogs ==
    \A u \in Users, sym \in Symbols :
        Staked(DB, u, sym) = StakeRow(DB, sym, u) + UnstakeRow(DB, sym, u)

\* An immediate unstake has just taken the rest of the staking log row of an
\* account while a deferred request of the same account is pending, at a time
\* after that request was made.
C20_Witness ==
    /\ last.op = "unstake" /\ last.ok /\ last.inst
    /\ <<last.sym, last.from>> \notin DOMAIN stakinglog
    /\ <<last.sym, last.from>> \in DOMAIN unstakinglog
    /\ unstakinglog[<<last.sym, last.from>>].request_time < now
    /\ Staked(DB, last.from, last.sym) = UnstakeRow(DB, last.sym, last.from)
    /\ CallbacksOf(DB, last.from) # {}

=============================================================================
